---- MODULE Spec2Model ----
(***************************************************************************)
(* Model of the play2win data-aggregation pipeline                         *)
(* (src/app/api/comprehensive-data.js): parseCSV, processComprehensiveData *)
(* and the getComprehensiveData handler that runs them on the source file. *)
(*                                                                         *)
(* Text.  A JavaScript string is a sequence of symbols.  A symbol is a     *)
(* one-character string ("," "\n" " " "\r" "." "-" and the digits) or a    *)
(* word of letters ("Yes", "Goal", "Box") that no operation of the program *)
(* looks inside: split, trim, parseInt and parseFloat only ever look for   *)
(* separators, white space, signs, dots and digits.  The empty string is   *)
(* <<>>; the JavaScript value undefined is the reserved value Undefined.   *)
(*                                                                         *)
(* Numbers.  A JavaScript number is a rational [n, d] in lowest terms with *)
(* d > 0, or NaN, or PosInf/NegInf (a non-zero value divided by zero).     *)
(* Rounding of IEEE doubles is not modelled.                               *)
(*                                                                         *)
(* Server.  SpecServer puts ensureAuthenticated and the route table of     *)
(* src/server.js in front of the four API handlers: getComprehensiveData,  *)
(* getResearcherResponse, getModelPrediction and getConclusion with its    *)
(* tryGenerate.  A model call is one step whose outcome is a text, an      *)
(* empty text or an error; error messages are sequences of single          *)
(* characters, so that includes() finds a word inside a longer message.    *)
(* The prompts sent to the model are not modelled.                         *)
(***************************************************************************)
EXTENDS Integers, Sequences, FiniteSets, TLC

VARIABLES pc, csvContent, data, result, responses,
          req, handler, fileReads, apiKey, calls, outcome, modelIndex, purpose, lastError,
          caught, texts

\* the state of the request in front of the handlers and of the model calls
llmVars == <<apiKey, calls, outcome, modelIndex, purpose, lastError, caught, texts>>

vars == <<pc, csvContent, data, result, responses, req, handler, fileReads, llmVars>>

(***************************************************************************)
(* Bounds of the model.                                                    *)
(***************************************************************************)
\* largest number of data lines below the header of a source text
MaxLines == 3

(***************************************************************************)
(* JavaScript strings.                                                     *)
(***************************************************************************)
Undefined == <<"#undefined">>

WhiteSpace == {" ", "\r", "\t", "\n"}

Digits == <<"0", "1", "2", "3", "4", "5", "6", "7", "8", "9">>

IsDigit(c) == \E i \in 1..10 : Digits[i] = c

DigitVal(c) == (CHOOSE i \in 1..10 : Digits[i] = c) - 1

\* !v for a string-or-undefined value: the empty string and undefined are falsy
Truthy(v) == v # <<>> /\ v # Undefined

SetMin(S) == CHOOSE x \in S : \A y \in S : x <= y

SetMax(S) == CHOOSE x \in S : \A y \in S : y <= x

RECURSIVE SkipWhiteSpace(_, _)
\* the first index from i on that holds no white space
SkipWhiteSpace(s, i) ==
    IF i <= Len(s) /\ s[i] \in WhiteSpace THEN SkipWhiteSpace(s, i + 1) ELSE i

RECURSIVE SkipWhiteSpaceBack(_, _)
\* the last index up to j that holds no white space
SkipWhiteSpaceBack(s, j) ==
    IF j >= 1 /\ s[j] \in WhiteSpace THEN SkipWhiteSpaceBack(s, j - 1) ELSE j

\* String.prototype.trim
Trim(s) ==
    LET i == SkipWhiteSpace(s, 1)
        j == SkipWhiteSpaceBack(s, Len(s))
    IN  IF i > j THEN <<>> ELSE SubSeq(s, i, j)

Range(s) == {s[i] : i \in 1..Len(s)}

\* the k-th smallest element of a set of integers
Nth(S, k) == CHOOSE p \in S : Cardinality({q \in S : q < p}) = k - 1

RECURSIVE SplitFrom(_, _, _)
\* the pieces of s from index start on
SplitFrom(s, sep, start) ==
    LET at == {i \in start..Len(s) : s[i] = sep}
    IN  IF at = {} THEN <<SubSeq(s, start, Len(s))>>
        ELSE LET p == SetMin(at)
             IN  <<SubSeq(s, start, p - 1)>> \o SplitFrom(s, sep, p + 1)

\* String.prototype.split(sep) for a one-character separator: the pieces
\* between consecutive separators, one more piece than there are separators
Split(s, sep) == SplitFrom(s, sep, 1)

RECURSIVE Join(_, _)
\* Array.prototype.join(sep)
Join(parts, sep) ==
    IF Len(parts) = 0 THEN <<>>
    ELSE IF Len(parts) = 1 THEN parts[1]
    ELSE parts[1] \o <<sep>> \o Join(Tail(parts), sep)

(***************************************************************************)
(* JavaScript numbers.                                                     *)
(***************************************************************************)
NaN == [n |-> 0, d |-> 0]

PosInf == [n |-> 1, d |-> 0]

NegInf == [n |-> -1, d |-> 0]

Null == [null |-> TRUE]

Abs(x) == IF x < 0 THEN -x ELSE x

RECURSIVE GCD(_, _)
GCD(a, b) == IF b = 0 THEN a ELSE GCD(b, a % b)

\* the number n/d, d > 0, in lowest terms
Rat(n, d) ==
    LET g == GCD(Abs(n), d)
    IN  [n |-> n \div g, d |-> d \div g]

IntNum(k) == [n |-> k, d |-> 1]

Zero == IntNum(0)

IsFinite(x) == x.d > 0

IsInteger(x) == x.d = 1

\* x + y
NumAdd(x, y) ==
    IF x = NaN \/ y = NaN THEN NaN
    ELSE IF ~IsFinite(x) THEN (IF ~IsFinite(y) /\ y # x THEN NaN ELSE x)
    ELSE IF ~IsFinite(y) THEN y
    ELSE Rat(x.n * y.d + y.n * x.d, x.d * y.d)

\* x - y
NumSub(x, y) ==
    IF x = NaN \/ y = NaN THEN NaN
    ELSE NumAdd(x, [n |-> -y.n, d |-> y.d])

\* x / k for a count k >= 0 (an array length)
NumDivCount(x, k) ==
    IF x = NaN THEN NaN
    ELSE IF ~IsFinite(x) THEN x
    ELSE IF k = 0 THEN (IF x.n = 0 THEN NaN ELSE IF x.n > 0 THEN PosInf ELSE NegInf)
    ELSE Rat(x.n, x.d * k)

\* x * 100
NumTimes100(x) ==
    IF ~IsFinite(x) THEN x ELSE Rat(x.n * 100, x.d)

\* x || 0 : NaN and 0 are falsy
OrZero(x) == IF x = NaN \/ (IsFinite(x) /\ x.n = 0) THEN Zero ELSE x

RECURSIVE DigitsEnd(_, _)
\* index just past the run of digits of s that starts at i
DigitsEnd(s, i) ==
    IF i <= Len(s) /\ IsDigit(s[i]) THEN DigitsEnd(s, i + 1) ELSE i

RECURSIVE DigitsValue(_, _, _, _)
\* value of the digits s[i..j-1] appended to acc
DigitsValue(s, i, j, acc) ==
    IF i >= j THEN acc ELSE DigitsValue(s, i + 1, j, acc * 10 + DigitVal(s[i]))

RECURSIVE Pow10(_)
Pow10(k) == IF k = 0 THEN 1 ELSE 10 * Pow10(k - 1)

\* parseInt(v): white space, an optional sign, then the longest run of digits
parseInt(v) ==
    IF v = Undefined THEN NaN
    ELSE
    LET s    == Trim(v)
        neg  == Len(s) > 0 /\ s[1] = "-"
        from == IF Len(s) > 0 /\ s[1] \in {"-", "+"} THEN 2 ELSE 1
        to   == DigitsEnd(s, from)
    IN  IF to = from THEN NaN
        ELSE IntNum((IF neg THEN -1 ELSE 1) * DigitsValue(s, from, to, 0))

\* parseFloat(v): white space, an optional sign, digits, an optional dot and
\* more digits; at least one digit is needed
parseFloat(v) ==
    IF v = Undefined THEN NaN
    ELSE
    LET s      == Trim(v)
        neg    == Len(s) > 0 /\ s[1] = "-"
        from   == IF Len(s) > 0 /\ s[1] \in {"-", "+"} THEN 2 ELSE 1
        intEnd == DigitsEnd(s, from)
        hasDot == intEnd <= Len(s) /\ s[intEnd] = "."
        frFrom == intEnd + 1
        frEnd  == IF hasDot THEN DigitsEnd(s, frFrom) ELSE frFrom
        nfrac  == frEnd - frFrom
        sign   == IF neg THEN -1 ELSE 1
    IN  IF intEnd = from /\ nfrac = 0 THEN NaN
        ELSE Rat(sign * (DigitsValue(s, from, intEnd, 0) * Pow10(nfrac)
                         + DigitsValue(s, frFrom, frEnd, 0)),
                 Pow10(nfrac))

\* Number(v), the coercion the subtraction a - b applies to a string
toNumber(v) ==
    IF v = Undefined THEN NaN
    ELSE
    LET s == Trim(v)
        from == IF Len(s) > 0 /\ s[1] \in {"-", "+"} THEN 2 ELSE 1
        intEnd == DigitsEnd(s, from)
        hasDot == intEnd <= Len(s) /\ s[intEnd] = "."
        frEnd  == IF hasDot THEN DigitsEnd(s, intEnd + 1) ELSE intEnd
    IN  IF s = <<>> THEN Zero
        ELSE IF frEnd = Len(s) + 1 THEN parseFloat(s)
        ELSE NaN

(***************************************************************************)
(* Column names of the source file.                                        *)
(***************************************************************************)
GameID == <<"Game", " ", "ID">>

Opponent == <<"Opponent">>

Date == <<"Date">>

Season == <<"Season">>

Minute == <<"Minute">>

PlayType == <<"Play", " ", "Type">>

ShotAttempt == <<"Shot", " ", "Attempt">>

ShotDistance == <<"Shot", " ", "Distance">>

ShotOutcome == <<"Shot", " ", "Outcome">>

XG == <<"xG">>

PlayContext == <<"Play", " ", "Context">>

LocationOnField == <<"Location", " ", "on", " ", "Field">>

Outcome == <<"Outcome">>

Success == <<"Success">>

WinImpact == <<"Win", " ", "Impact">>

AssistType == <<"Assist", " ", "Type">>

PhaseOfMatch == <<"Phase", " ", "of", " ", "Match">>

Yes == <<"Yes">>

Goal == <<"Goal">>

(***************************************************************************)
(* parseCSV                                                                *)
(***************************************************************************)
\* row[key] : undefined when the row has no such column
Get(row, key) == IF key \in DOMAIN row THEN row[key] ELSE Undefined

RECURSIVE TrimAll(_)
\* the strings of a list, each trimmed
TrimAll(strs) ==
    IF Len(strs) = 0 THEN <<>>
    ELSE Append(TrimAll(SubSeq(strs, 1, Len(strs) - 1)), Trim(strs[Len(strs)]))

\* the row object built by headers.forEach: a repeated header keeps the value
\* of its last column
rowOf(headers, values) ==
    LET names == TrimAll(headers)
    IN  [h \in Range(names) |->
            LET index == SetMax({i \in 1..Len(names) : names[i] = h})
            IN  IF values[index] # <<>> THEN Trim(values[index]) ELSE <<>>]

\* variant: only a line with too few values is skipped
IsMalformedLine_TooFewOnly(line, headers) == Len(Split(line, ",")) < Len(headers)

\* a line the loop skips because of its value count
IsMalformedLine(line, headers) == Len(Split(line, ",")) # Len(headers)

\* the body of the for loop over lines[i], from line i on
RECURSIVE parseLines(_, _, _, _)
parseLines(lines, headers, i, acc) ==
    IF i > Len(lines) THEN acc
    ELSE IF Trim(lines[i]) = <<>> THEN parseLines(lines, headers, i + 1, acc)
    ELSE IF IsMalformedLine(lines[i], headers)
         THEN parseLines(lines, headers, i + 1, acc)
    ELSE parseLines(lines, headers, i + 1,
                    Append(acc, rowOf(headers, Split(lines[i], ","))))

parseCSV(content) ==
    LET lines   == Split(content, "\n")
        headers == Split(lines[1], ",")
    IN  parseLines(lines, headers, 2, <<>>)

(***************************************************************************)
(* Array helpers.                                                          *)
(***************************************************************************)
\* data.map(row => row[col])
Column(rows, col) == [i \in 1..Len(rows) |-> Get(rows[i], col)]

RECURSIVE Uniq(_)
\* [...new Set(s)] : the distinct elements in order of first occurrence
Uniq(s) ==
    IF Len(s) = 0 THEN <<>>
    ELSE LET r == Uniq(SubSeq(s, 1, Len(s) - 1))
             x == s[Len(s)]
         IN  IF \E i \in 1..Len(r) : r[i] = x THEN r ELSE Append(r, x)

RECURSIVE Flatten(_)
Flatten(ss) == IF Len(ss) = 0 THEN <<>> ELSE ss[1] \o Flatten(Tail(ss))

RECURSIVE SumSeq(_)
\* nums.reduce((sum, x) => sum + x, 0)
SumSeq(nums) ==
    IF Len(nums) = 0 THEN Zero
    ELSE NumAdd(SumSeq(SubSeq(nums, 1, Len(nums) - 1)), nums[Len(nums)])

\* rows.reduce((sum, row) => sum + (parseFloat(row['xG']) || 0), 0)
sumRowXG(rows) == SumSeq([i \in 1..Len(rows) |-> OrZero(parseFloat(Get(rows[i], XG)))])

\* rows.filter(row => row['Shot Attempt'] === 'Yes')
rowShots(rows) == SelectSeq(rows, LAMBDA row : Get(row, ShotAttempt) = Yes)

\* rows.filter(row => row['Shot Outcome'] === 'Goal')
rowGoals(rows) == SelectSeq(rows, LAMBDA row : Get(row, ShotOutcome) = Goal)

(***************************************************************************)
(* processComprehensiveData, stage by stage.                               *)
(***************************************************************************)
\* the comparator (a, b) => a - b as Array.prototype.sort reads it: a NaN
\* result counts as 0
compareGameIds(a, b) ==
    LET v == NumSub(toNumber(a), toNumber(b))
    IN  IF v = NaN THEN 0 ELSE IF v.n > 0 THEN 1 ELSE IF v.n < 0 THEN -1 ELSE 0

RECURSIVE insertGameId(_, _)
\* stable insertion: x goes behind every element that does not compare greater
insertGameId(sorted, x) ==
    IF Len(sorted) = 0 THEN <<x>>
    ELSE LET last == sorted[Len(sorted)]
         IN  IF compareGameIds(last, x) > 0
             THEN Append(insertGameId(SubSeq(sorted, 1, Len(sorted) - 1), x), last)
             ELSE Append(sorted, x)

RECURSIVE sortGameIds(_)
\* ids.sort((a, b) => a - b), a stable sort
sortGameIds(ids) ==
    IF Len(ids) = 0 THEN <<>>
    ELSE insertGameId(sortGameIds(SubSeq(ids, 1, Len(ids) - 1)), ids[Len(ids)])

\* variant: the game identifiers are left in order of first occurrence
gameIdsOf_Unsorted(rows) == Uniq(Column(rows, GameID))

\* const games
gameIdsOf(rows) == sortGameIds(Uniq(Column(rows, GameID)))

\* variant: the empty Opponent value is kept in the list
opponentsOf_KeepEmpty(rows) == Uniq(Column(rows, Opponent))

\* const opponents
opponentsOf(rows) == SelectSeq(Uniq(Column(rows, Opponent)), LAMBDA opp : Truthy(opp))

\* the object gamePlays.map builds for one record
toPlay(play) ==
    [minute       |-> OrZero(parseInt(Get(play, Minute))),
     playType     |-> Get(play, PlayType),
     shotAttempt  |-> Get(play, ShotAttempt),
     shotDistance |-> IF Truthy(Get(play, ShotDistance))
                      THEN parseInt(Get(play, ShotDistance)) ELSE Null,
     shotOutcome  |-> Get(play, ShotOutcome),
     xG           |-> OrZero(parseFloat(Get(play, XG))),
     playContext  |-> Get(play, PlayContext),
     location     |-> Get(play, LocationOnField),
     outcome      |-> Get(play, Outcome),
     success      |-> Get(play, Success) = Yes,
     winImpact    |-> OrZero(parseInt(Get(play, WinImpact))),
     assistType   |-> Get(play, AssistType),
     phaseOfMatch |-> Get(play, PhaseOfMatch)]

\* the game object of materializeGame
gameObject(gameId, gamePlays) ==
    [gameId   |-> gameId,
     opponent |-> Get(gamePlays[1], Opponent),
     date     |-> Get(gamePlays[1], Date),
     season   |-> Get(gamePlays[1], Season),
     plays    |-> [i \in 1..Len(gamePlays) |-> toPlay(gamePlays[i])]]

\* variant: the Date of the first play is not checked
materializeGame_NoDateCheck(rows, gameId) ==
    LET gamePlays == SelectSeq(rows, LAMBDA row : Get(row, GameID) = gameId)
    IN  IF Len(gamePlays) = 0 THEN Null
        ELSE IF ~Truthy(Get(gamePlays[1], Opponent)) \/ ~Truthy(Get(gamePlays[1], Season))
             THEN Null
             ELSE gameObject(gameId, gamePlays)

\* the callback of games.map: the game object, or null for a skipped game
materializeGame(rows, gameId) ==
    LET gamePlays == SelectSeq(rows, LAMBDA row : Get(row, GameID) = gameId)
    IN  IF Len(gamePlays) = 0 THEN Null
        ELSE LET firstPlay == gamePlays[1]
             IN  IF ~Truthy(Get(firstPlay, Opponent)) \/ ~Truthy(Get(firstPlay, Date))
                    \/ ~Truthy(Get(firstPlay, Season))
                 THEN Null
                 ELSE gameObject(gameId, gamePlays)

\* const gameData
gameDataOf(rows, games) ==
    SelectSeq([i \in 1..Len(games) |-> materializeGame(rows, games[i])],
              LAMBDA game : game # Null)

\* the entry goalsTimeline.push adds for one goal of one game
timelineEntry(game, goal) ==
    [minute      |-> goal.minute,
     gameId      |-> game.gameId,
     opponent    |-> game.opponent,
     playType    |-> goal.playType,
     playContext |-> goal.playContext,
     location    |-> goal.location,
     xG          |-> goal.xG,
     winImpact   |-> goal.winImpact]

\* variant: only goals of attempted shots enter the timeline
goalsTimelineOf_ShotsOnly(gameData) ==
    Flatten([g \in 1..Len(gameData) |->
        LET goals == SelectSeq(gameData[g].plays,
                               LAMBDA play : play.shotOutcome = Goal /\ play.shotAttempt = Yes)
        IN  [k \in 1..Len(goals) |-> timelineEntry(gameData[g], goals[k])]])

\* 1. Goals Timeline Data
goalsTimelineOf(gameData) ==
    Flatten([g \in 1..Len(gameData) |->
        LET goals == SelectSeq(gameData[g].plays, LAMBDA play : play.shotOutcome = Goal)
        IN  [k \in 1..Len(goals) |-> timelineEntry(gameData[g], goals[k])]])

\* variant: only the locations of attempted shots get an entry
locationsOf_ShotsOnly(rows) ==
    SelectSeq(Uniq(Column(rowShots(rows), LocationOnField)), LAMBDA loc : Truthy(loc))

\* const locations
locationsOf(rows) ==
    SelectSeq(Uniq(Column(rows, LocationOnField)), LAMBDA loc : Truthy(loc))

\* variant: the plays of a location are not filtered by Shot Attempt
locationPlaysOf_AllPlays(rows, location) ==
    SelectSeq(rows, LAMBDA row : Get(row, LocationOnField) = location)

\* const locationPlays
locationPlaysOf(rows, location) ==
    SelectSeq(rows, LAMBDA row : Get(row, LocationOnField) = location
                                 /\ Get(row, ShotAttempt) = Yes)

\* variant: avgXG without its || 0
shotMapEntry_NoDefault(locationPlays) ==
    [totalShots  |-> Len(locationPlays),
     goals       |-> Len(rowGoals(locationPlays)),
     avgXG       |-> NumDivCount(sumRowXG(locationPlays), Len(locationPlays)),
     successRate |-> IF Len(locationPlays) > 0
                     THEN NumTimes100(NumDivCount(IntNum(Len(rowGoals(locationPlays))),
                                                  Len(locationPlays)))
                     ELSE Zero]

\* shotMapData[location]
shotMapEntry(locationPlays) ==
    [totalShots  |-> Len(locationPlays),
     goals       |-> Len(rowGoals(locationPlays)),
     avgXG       |-> OrZero(NumDivCount(sumRowXG(locationPlays), Len(locationPlays))),
     successRate |-> IF Len(locationPlays) > 0
                     THEN NumTimes100(NumDivCount(IntNum(Len(rowGoals(locationPlays))),
                                                  Len(locationPlays)))
                     ELSE Zero]

\* 2. Shot Map Data
shotMapDataOf(rows) ==
    [location \in Range(locationsOf(rows)) |->
        shotMapEntry(locationPlaysOf(rows, location))]

\* playTypeData[playType]
playTypeEntry(typePlays) ==
    [count |-> Len(typePlays),
     shots |-> Len(rowShots(typePlays)),
     goals |-> Len(rowGoals(typePlays)),
     avgXG |-> OrZero(NumDivCount(sumRowXG(typePlays), Len(typePlays)))]

\* 3. Play Type Distribution
playTypeDataOf(rows) ==
    LET playTypes == SelectSeq(Uniq(Column(rows, PlayType)), LAMBDA type : Truthy(type))
    IN  [playType \in Range(playTypes) |->
            playTypeEntry(SelectSeq(rows, LAMBDA row : Get(row, PlayType) = playType))]

\* variant: totalGoals counts only the goals of attempted shots
teamEntry_GoalsOfShots(opponentGames) ==
    LET allPlays == Flatten([g \in 1..Len(opponentGames) |-> opponentGames[g].plays])
        nGoals   == Len(SelectSeq(allPlays, LAMBDA play : play.shotOutcome = Goal
                                                          /\ play.shotAttempt = Yes))
        nShots   == Len(SelectSeq(allPlays, LAMBDA play : play.shotAttempt = Yes))
        xgSum    == SumSeq([i \in 1..Len(allPlays) |-> allPlays[i].xG])
    IN  [gamesPlayed    |-> Len(opponentGames),
         totalGoals     |-> nGoals,
         totalShots     |-> nShots,
         totalXG        |-> xgSum,
         conversionRate |-> IF nShots > 0
                            THEN NumTimes100(NumDivCount(IntNum(nGoals), nShots))
                            ELSE Zero,
         avgXGPerShot   |-> IF nShots > 0 THEN NumDivCount(xgSum, nShots) ELSE Zero]

\* teamComparison[opponent], from the plays of the opponent's games
teamEntry(opponentGames) ==
    LET allPlays == Flatten([g \in 1..Len(opponentGames) |-> opponentGames[g].plays])
        nGoals   == Len(SelectSeq(allPlays, LAMBDA play : play.shotOutcome = Goal))
        nShots   == Len(SelectSeq(allPlays, LAMBDA play : play.shotAttempt = Yes))
        xgSum    == SumSeq([i \in 1..Len(allPlays) |-> allPlays[i].xG])
    IN  [gamesPlayed    |-> Len(opponentGames),
         totalGoals     |-> nGoals,
         totalShots     |-> nShots,
         totalXG        |-> xgSum,
         conversionRate |-> IF nShots > 0
                            THEN NumTimes100(NumDivCount(IntNum(nGoals), nShots))
                            ELSE Zero,
         avgXGPerShot   |-> IF nShots > 0 THEN NumDivCount(xgSum, nShots) ELSE Zero]

\* 4. Team Comparison Data
teamComparisonOf(opponents, gameData) ==
    [opponent \in Range(opponents) |->
        teamEntry(SelectSeq(gameData, LAMBDA game : game.opponent = opponent))]

\* variant: the rate and the average are computed without the zero-shots test
keyStatsOf_NoGuard(rows, games) ==
    LET nGoals == Len(rowGoals(rows))
        nShots == Len(rowShots(rows))
    IN  [totalGames            |-> Len(games),
         totalGoals            |-> nGoals,
         totalShots            |-> nShots,
         totalXG               |-> sumRowXG(rows),
         overallConversionRate |-> NumTimes100(NumDivCount(IntNum(nGoals), nShots)),
         avgXGPerShot          |-> NumDivCount(sumRowXG(rows), nShots)]

\* variant: totalGames counts the records
keyStatsOf_CountsRecords(rows, games) ==
    LET nGoals == Len(rowGoals(rows))
        nShots == Len(rowShots(rows))
    IN  [totalGames            |-> Len(rows),
         totalGoals            |-> nGoals,
         totalShots            |-> nShots,
         totalXG               |-> sumRowXG(rows),
         overallConversionRate |-> IF nShots > 0
                                   THEN NumTimes100(NumDivCount(IntNum(nGoals), nShots))
                                   ELSE Zero,
         avgXGPerShot          |-> IF nShots > 0
                                   THEN NumDivCount(sumRowXG(rows), nShots)
                                   ELSE Zero]

\* 5. Key Statistics
keyStatsOf(rows, games) ==
    LET nGoals == Len(rowGoals(rows))
        nShots == Len(rowShots(rows))
    IN  [totalGames            |-> Len(games),
         totalGoals            |-> nGoals,
         totalShots            |-> nShots,
         totalXG               |-> sumRowXG(rows),
         overallConversionRate |-> IF nShots > 0
                                   THEN NumTimes100(NumDivCount(IntNum(nGoals), nShots))
                                   ELSE Zero,
         avgXGPerShot          |-> IF nShots > 0
                                   THEN NumDivCount(sumRowXG(rows), nShots)
                                   ELSE Zero]

processComprehensiveData(rows) ==
    LET games     == gameIdsOf(rows)
        opponents == opponentsOf(rows)
        gameData  == gameDataOf(rows, games)
    IN  [goalsTimeline  |-> goalsTimelineOf(gameData),
         shotMapData    |-> shotMapDataOf(rows),
         playTypeData   |-> playTypeDataOf(rows),
         teamComparison |-> teamComparisonOf(opponents, gameData),
         keyStats       |-> keyStatsOf(rows, games),
         games          |-> gameData,
         opponents      |-> opponents]

(***************************************************************************)
(* Source texts: a header line and up to MaxLines lines below it.          *)
(***************************************************************************)
HeaderColumns ==
    <<GameID, Opponent, Date, Season, Minute, PlayType, ShotAttempt, ShotDistance,
      ShotOutcome, XG, PlayContext, LocationOnField, Outcome, Success, WinImpact,
      AssistType, PhaseOfMatch>>

\* the 17-column header of match_data.csv
FullHeader == Join(HeaderColumns, ",")

\* a header that lacks the last three columns
ShortHeader == Join(SubSeq(HeaderColumns, 1, 14), ",")

Headers == {FullHeader, ShortHeader}

\* 1,A,D,S,7,Pass,Yes,12,Goal,0.3,Open,Box,Scored,Yes,1,Cross,Early
LineGoalA ==
    Join(<< <<"1">>, <<"A">>, <<"D">>, <<"S">>, <<"7">>, <<"Pass">>, <<"Yes">>,
            <<"1", "2">>, <<"Goal">>, <<"0", ".", "3">>, <<"Open">>, <<"Box">>,
            <<"Scored">>, <<"Yes">>, <<"1">>, <<"Cross">>, <<"Early">> >>, ",")

\* 1,A,D,S,9,Pass,Yes,,Miss,0.1,Open,Box,Wide,No,0,,Early
LineMissA ==
    Join(<< <<"1">>, <<"A">>, <<"D">>, <<"S">>, <<"9">>, <<"Pass">>, <<"Yes">>,
            <<>>, <<"Miss">>, <<"0", ".", "1">>, <<"Open">>, <<"Box">>,
            <<"Wide">>, <<"No">>, <<"0">>, <<>>, <<"Early">> >>, ",")

\* 2,B,D,S,x,Corner,No,,Goal,,Set,Wing,Scored,Yes,-1,,Late
\* a goal on a record that is not a shot attempt
LineGoalNoShotB ==
    Join(<< <<"2">>, <<"B">>, <<"D">>, <<"S">>, <<"x">>, <<"Corner">>, <<"No">>,
            <<>>, <<"Goal">>, <<>>, <<"Set">>, <<"Wing">>,
            <<"Scored">>, <<"Yes">>, <<"-", "1">>, <<>>, <<"Late">> >>, ",")

\* 10,A,D,S,,Pass,Yes,abc,Goal,x,Open,Box,Scored,yes,2px,,Late
\* numeric fields that do not parse
LineUnparseableA ==
    Join(<< <<"1", "0">>, <<"A">>, <<"D">>, <<"S">>, <<>>, <<"Pass">>, <<"Yes">>,
            <<"abc">>, <<"Goal">>, <<"x">>, <<"Open">>, <<"Box">>,
            <<"Scored">>, <<"yes">>, <<"2", "px">>, <<>>, <<"Late">> >>, ",")

\* 9,B,,S,30,Corner,Yes,8,Goal,0.45,Set,Wing,Scored,Yes,1,,Late
\* an empty Date
LineNoDateB ==
    Join(<< <<"9">>, <<"B">>, <<>>, <<"S">>, <<"3", "0">>, <<"Corner">>, <<"Yes">>,
            <<"8">>, <<"Goal">>, <<"0", ".", "4", "5">>, <<"Set">>, <<"Wing">>,
            <<"Scored">>, <<"Yes">>, <<"1">>, <<>>, <<"Late">> >>, ",")

\* 2,,D,S,40,,No,,Miss,0,Open,,Lost,No,0,,Late
\* an empty Opponent, Play Type and Location on Field
LineNoOpponent ==
    Join(<< <<"2">>, <<>>, <<"D">>, <<"S">>, <<"4", "0">>, <<>>, <<"No">>,
            <<>>, <<"Miss">>, <<"0">>, <<"Open">>, <<>>,
            <<"Lost">>, <<"No">>, <<"0">>, <<>>, <<"Late">> >>, ",")

\* 1,A,D,S,5,Pass,Yes,3,Goal,0.2,Open,Box,Scored,Yes
\* 14 values: ragged under the full header
LineFourteen ==
    Join(<< <<"1">>, <<"A">>, <<"D">>, <<"S">>, <<"5">>, <<"Pass">>, <<"Yes">>,
            <<"3">>, <<"Goal">>, <<"0", ".", "2">>, <<"Open">>, <<"Box">>,
            <<"Scored">>, <<"Yes">> >>, ",")

\* a line of white space
LineBlank == <<" ", " ">>

\* " 9 , B ,D,S, 3 ,Corner, Yes ,20,Miss, 0.5 ,Set, Wing ,Wide,No,1,,Late\r"
\* padded values and a carriage return
LinePaddedB ==
    Join(<< <<" ", "9", " ">>, <<" ", "B", " ">>, <<"D">>, <<"S">>, <<" ", "3", " ">>,
            <<"Corner">>, <<" ", "Yes", " ">>, <<"2", "0">>, <<"Miss">>,
            <<" ", "0", ".", "5", " ">>, <<"Set">>, <<" ", "Wing", " ">>,
            <<"Wide">>, <<"No">>, <<"1">>, <<>>, <<"Late", "\r">> >>, ",")

DataLines ==
    {LineGoalA, LineMissA, LineGoalNoShotB, LineUnparseableA, LineNoDateB,
     LineNoOpponent, LineFourteen, LineBlank, LinePaddedB}

\* the texts the source file can hold
SourceTexts ==
    {Join(<<h>> \o body, "\n") :
        h \in Headers, body \in UNION {[1..k -> DataLines] : k \in 0..MaxLines}}

(***************************************************************************)
(* getComprehensiveData: one request, step by step.                        *)
(***************************************************************************)
NoResult == Null

\* no request object: the handler is entered directly
NoRequest == Null

\* let lastError (undefined in the handlers, null in tryGenerate)
NoError == Null

\* no model call has returned yet
NoOutcome == [kind |-> "none", error |-> NoError]

\* researcherText and modelText before getConclusion assigns them
NoTexts == [researcher |-> Undefined, model |-> Undefined]

\* no environment read, no model call and no caught error yet
NoModelActivity ==
    /\ apiKey = "unread"
    /\ calls = <<>>
    /\ outcome = NoOutcome
    /\ modelIndex = 1
    /\ purpose = "none"
    /\ lastError = NoError
    /\ caught = NoError
    /\ texts = NoTexts

Init ==
    /\ pc = "start"
    /\ csvContent = <<>>
    /\ data = <<>>
    /\ result = NoResult
    /\ responses = <<>>
    /\ req = NoRequest
    /\ handler = "getComprehensiveData"
    /\ fileReads = 0
    /\ NoModelActivity

\* fs.readFileSync returns the text of match_data.csv
ReadFile ==
    /\ pc = "start"
    /\ \E text \in SourceTexts : csvContent' = text
    /\ pc' = "read"
    /\ fileReads' = fileReads + 1
    /\ UNCHANGED <<data, result, responses, req, handler, llmVars>>

\* fs.readFileSync throws: the catch block answers 500
ReadFileFails ==
    /\ pc = "start"
    /\ responses' = Append(responses, [status |-> 500,
                                       body |-> "Failed to process comprehensive data"])
    /\ pc' = "done"
    /\ fileReads' = fileReads + 1
    /\ UNCHANGED <<csvContent, data, result, req, handler, llmVars>>

\* const data = parseCSV(csvContent)
ParseStep ==
    /\ pc = "read"
    /\ data' = parseCSV(csvContent)
    /\ pc' = "parsed"
    /\ UNCHANGED <<csvContent, result, responses, req, handler, fileReads, llmVars>>

\* const comprehensiveData = processComprehensiveData(data)
ProcessStep ==
    /\ pc = "parsed"
    /\ result' = processComprehensiveData(data)
    /\ pc' = "processed"
    /\ UNCHANGED <<csvContent, data, responses, req, handler, fileReads, llmVars>>

\* variant: an empty goalsTimeline or games counts as missing
missingRequired_EmptyIsMissing(r) == Len(r.goalsTimeline) = 0 \/ Len(r.games) = 0

\* !comprehensiveData.goalsTimeline || !comprehensiveData.games : an array,
\* empty or not, is truthy, so only an absent property counts
missingRequired(r) == "goalsTimeline" \notin DOMAIN r \/ "games" \notin DOMAIN r

\* the defensive check and res.json(comprehensiveData)
Respond ==
    /\ pc = "processed"
    /\ responses' = Append(responses,
          IF missingRequired(result)
          THEN [status |-> 500, body |-> "Comprehensive data missing required properties"]
          ELSE [status |-> 200, body |-> result])
    /\ pc' = "done"
    /\ UNCHANGED <<csvContent, data, result, req, handler, fileReads, llmVars>>

Next == ReadFile \/ ReadFileFails \/ ParseStep \/ ProcessStep \/ Respond

Spec == Init /\ [][Next]_vars

(***************************************************************************)
(* Text helpers of the handlers that call the language model.              *)
(***************************************************************************)
UpperCase ==
    <<"A", "B", "C", "D", "E", "F", "G", "H", "I", "J", "K", "L", "M",
      "N", "O", "P", "Q", "R", "S", "T", "U", "V", "W", "X", "Y", "Z">>

LowerCase ==
    <<"a", "b", "c", "d", "e", "f", "g", "h", "i", "j", "k", "l", "m",
      "n", "o", "p", "q", "r", "s", "t", "u", "v", "w", "x", "y", "z">>

\* String.prototype.toLowerCase, symbol by symbol
toLowerCase(s) ==
    [i \in 1..Len(s) |->
        IF \E j \in 1..26 : UpperCase[j] = s[i]
        THEN LowerCase[CHOOSE j \in 1..26 : UpperCase[j] = s[i]]
        ELSE s[i]]

\* String.prototype.includes
includes(s, needle) ==
    \E i \in 0..(Len(s) - Len(needle)) : SubSeq(s, i + 1, i + Len(needle)) = needle

\* (error.message || '').toLowerCase()
messageLower(error) ==
    IF Truthy(error.message) THEN toLowerCase(error.message) ELSE <<>>

(***************************************************************************)
(* The errors a model call can fail with: an Error object with a message   *)
(* (absent on a bare Error) and the HTTP status of the API's answer (0     *)
(* when the error carries none).                                           *)
(***************************************************************************)
\* '404 Not Found': the model does not exist for this API version
NotFoundError == [message |-> <<"4", "0", "4", " ", "N", "o", "t", " ", "F", "o", "u", "n", "d">>, status |-> 404]

\* 'API key not valid'
ApiKeyError == [message |-> <<"A", "P", "I", " ", "k", "e", "y", " ", "n", "o", "t", " ", "v", "a", "l", "i", "d">>, status |-> 400]

\* 'Quota exceeded for model': a quota error that names the model
QuotaError == [message |-> <<"Q", "u", "o", "t", "a", " ", "e", "x", "c", "e", "e", "d", "e", "d", " ", "f", "o", "r", " ", "m", "o", "d", "e", "l">>, status |-> 429]

\* an Error without a message
BareError == [message |-> Undefined, status |-> 0]

ModelErrors == {NotFoundError, ApiKeyError, QuotaError, BareError}

\* new Error('Empty response from Gemini API')
EmptyResponseError == [message |-> <<"E", "m", "p", "t", "y", " ", "r", "e", "s", "p", "o", "n", "s", "e", " ", "f", "r", "o", "m", " ", "G", "e", "m", "i", "n", "i", " ", "A", "P", "I">>, status |-> 0]

\* new Error('All model attempts failed')
AllFailedError == [message |-> <<"A", "l", "l", " ", "m", "o", "d", "e", "l", " ", "a", "t", "t", "e", "m", "p", "t", "s", " ", "f", "a", "i", "l", "e", "d">>, status |-> 0]

\* TypeError: query.trim is not a function
TrimTypeError == [message |-> <<"q", "u", "e", "r", "y", ".", "t", "r", "i", "m", " ", "i", "s", " ", "n", "o", "t", " ", "a", " ", "f", "u", "n", "c", "t", "i", "o", "n">>, status |-> 0]

\* TypeError: (query || "").toLowerCase is not a function
LowerTypeError == [message |-> <<"(", "q", "u", "e", "r", "y", " ", "|", "|", " ", "\"", "\"", ")", ".", "t", "o", "L", "o", "w", "e", "r", "C", "a", "s", "e", " ", "i", "s", " ", "n", "o", "t", " ", "a", " ", "f", "u", "n", "c", "t", "i", "o", "n">>, status |-> 0]

\* what model.generateContent and response.text() can produce: a text, an
\* empty text, or a rejection with one of the errors
GeneratedText == <<"generated">>

Outcomes ==
    {[kind |-> "text", error |-> NoError], [kind |-> "empty", error |-> NoError]}
    \cup {[kind |-> "error", error |-> e] : e \in ModelErrors}

\* const modelsToTry
modelsToTry == <<"gemini-2.0-flash", "gemini-1.5-pro", "gemini-pro", "gemini-1.0-pro">>

\* the test of the catch block inside the loops: try the next model
tryNextModel(error) ==
    LET errorMsg == messageLower(error)
    IN  \/ includes(errorMsg, <<"n", "o", "t", " ", "f", "o", "u", "n", "d">>)
        \/ includes(errorMsg, <<"4", "0", "4">>)
        \/ includes(errorMsg, <<"m", "o", "d", "e", "l">>)

\* error.message || 'Unknown error occurred'
errorDetails(error, unknown) ==
    IF Truthy(error.message) THEN error.message ELSE <<unknown>>

(***************************************************************************)
(* The requests.                                                           *)
(***************************************************************************)
\* a query that is a JSON number: truthy, without trim and toLowerCase
NotAString == <<"#number">>

Queries == {Undefined, <<>>, <<" ">>, <<"q">>, NotAString}

SuppliedResearcher == <<"supplied researcher text">>

SuppliedModel == <<"supplied model text">>

\* req.body after express.json()
QueryBodies == {[query |-> q, researcher |-> Undefined, model |-> Undefined] : q \in Queries}

ConclusionBodies ==
    [query : Queries,
     researcher : {Undefined, <<>>, SuppliedResearcher},
     model : {Undefined, <<>>, SuppliedModel}]

NoBody == [query |-> Undefined, researcher |-> Undefined, model |-> Undefined]

\* the protected API routes and their handlers
HandlerOf ==
    [comprehensiveData |-> "getComprehensiveData",
     researcher        |-> "getResearcherResponse",
     modelPred         |-> "getModelPrediction",
     conclusions       |-> "getConclusion"]

Requests ==
    {[route |-> r, authenticated |-> a, body |-> b] :
        r \in {"researcher", "modelPred"}, a \in BOOLEAN, b \in QueryBodies}
    \cup {[route |-> "conclusions", authenticated |-> a, body |-> b] :
            a \in BOOLEAN, b \in ConclusionBodies}
    \cup {[route |-> "comprehensiveData", authenticated |-> a, body |-> NoBody] :
            a \in BOOLEAN}

(***************************************************************************)
(* server.js: the request reaches ensureAuthenticated, then the handler.   *)
(***************************************************************************)
InitServer ==
    /\ pc = "idle"
    /\ csvContent = <<>>
    /\ data = <<>>
    /\ result = NoResult
    /\ responses = <<>>
    /\ req = NoRequest
    /\ handler = "none"
    /\ fileReads = 0
    /\ NoModelActivity

\* a request for one of the protected API routes arrives
Receive ==
    /\ pc = "idle"
    /\ \E r \in Requests : req' = r
    /\ pc' = "auth"
    /\ UNCHANGED <<csvContent, data, result, responses, handler, fileReads, llmVars>>

\* variant: the middleware calls next() for every request
ensureAuthenticated_AlwaysNext(request) == "next"

\* if (req.isAuthenticated()) return next(); else the 401 answer
ensureAuthenticated(request) == IF request.authenticated THEN "next" ELSE "401"

EnsureAuthenticated ==
    /\ pc = "auth"
    /\ IF ensureAuthenticated(req) = "next"
       THEN /\ handler' = HandlerOf[req.route]
            /\ pc' = IF req.route = "comprehensiveData" THEN "start" ELSE "begin"
            /\ UNCHANGED responses
       ELSE /\ responses' = Append(responses, [status |-> 401, body |-> "Unauthorized"])
            /\ pc' = "done"
            /\ UNCHANGED handler
    /\ UNCHANGED <<csvContent, data, result, req, fileReads, llmVars>>

(***************************************************************************)
(* The answers of the handlers.                                            *)
(***************************************************************************)
QueryRequired == [status |-> 400, body |-> "Query is required"]

KeyNotConfigured == [status |-> 500, body |-> "Gemini API key not configured"]

\* the catch block of getResearcherResponse
researcherCatch(error) ==
    <<[status  |-> 500,
       body    |-> "Failed to generate response",
       details |-> errorDetails(error, "Unknown error occurred")]>>

\* the catch block of getModelPrediction: the status and the texts depend on
\* the message and the status of the error
predictionCatch(error) ==
    LET errorMsgLower == messageLower(error)
    IN  IF \/ includes(errorMsgLower, <<"a", "p", "i", " ", "k", "e", "y">>)
           \/ includes(errorMsgLower, <<"i", "n", "v", "a", "l", "i", "d", " ", "a", "p", "i", " ", "k", "e", "y">>)
           \/ includes(errorMsgLower, <<"a", "u", "t", "h", "e", "n", "t", "i", "c", "a", "t", "i", "o", "n">>)
        THEN <<[status |-> 500, body |-> "Gemini API key error",
                details |-> <<"Invalid or missing API key.">>]>>
        ELSE IF includes(errorMsgLower, <<"q", "u", "o", "t", "a">>) \/ includes(errorMsgLower, <<"e", "x", "c", "e", "e", "d", "e", "d">>)
        THEN <<[status |-> 429, body |-> "Gemini Quota Exceeded",
                details |-> <<"You have exceeded your Gemini API quota.">>]>>
        ELSE IF \/ includes(errorMsgLower, <<"r", "a", "t", "e", " ", "l", "i", "m", "i", "t">>)
                \/ includes(errorMsgLower, <<"4", "2", "9">>)
                \/ error.status = 429
        THEN <<[status |-> 429, body |-> "Rate Limit Exceeded",
                details |-> <<"Too many requests.">>]>>
        ELSE IF \/ includes(errorMsgLower, <<"m", "o", "d", "e", "l">>)
                \/ includes(errorMsgLower, <<"n", "o", "t", " ", "f", "o", "u", "n", "d">>)
                \/ includes(errorMsgLower, <<"n", "o", "t", " ", "a", "v", "a", "i", "l", "a", "b", "l", "e">>)
                \/ includes(errorMsgLower, <<"4", "0", "4">>)
        THEN <<[status |-> 500, body |-> "Model error",
                details |-> <<"The selected model is not available for your API key. Error: ">>
                            \o error.message]>>
        ELSE IF \/ includes(errorMsgLower, <<"p", "e", "r", "m", "i", "s", "s", "i", "o", "n">>)
                \/ includes(errorMsgLower, <<"f", "o", "r", "b", "i", "d", "d", "e", "n">>)
                \/ error.status = 403
        THEN <<[status |-> 403, body |-> "Permission Denied",
                details |-> <<"Your API key does not have permission to access this resource.">>]>>
        ELSE IF \/ includes(errorMsgLower, <<"n", "e", "t", "w", "o", "r", "k">>)
                \/ includes(errorMsgLower, <<"t", "i", "m", "e", "o", "u", "t">>)
                \/ includes(errorMsgLower, <<"c", "o", "n", "n", "e", "c", "t", "i", "o", "n">>)
        THEN <<[status |-> 500, body |-> "Network Error",
                details |-> <<"Failed to connect to Gemini API.">>]>>
        ELSE <<[status |-> 500, body |-> "Failed to generate prediction",
                details |-> errorDetails(error, "Unknown error occurred")]>>

\* variant: the catch block passes the error on without answering
conclusionCatch_Rethrows(error) == <<>>

\* the catch block of getConclusion
conclusionCatch(error) ==
    <<[status  |-> 500,
       body    |-> "Failed to generate conclusion",
       details |-> errorDetails(error, "Unknown error")]>>

\* the catch block of the handler that is running
catchOf(h, error) ==
    IF h = "getResearcherResponse" THEN researcherCatch(error)
    ELSE IF h = "getModelPrediction" THEN predictionCatch(error)
    ELSE conclusionCatch(error)

\* !query || query.trim() === '' : "TypeError" when a truthy query has no trim
queryMissing(query) ==
    IF ~Truthy(query) THEN "yes"
    ELSE IF query = NotAString THEN "TypeError"
    ELSE IF Trim(query) = <<>> THEN "yes"
    ELSE "no"

\* the handler answers with one response and returns
Answer(response) ==
    /\ responses' = Append(responses, response)
    /\ pc' = "done"

\* the handler throws inside its try block: its catch block answers
Throw(error) ==
    /\ caught' = error
    /\ responses' = responses \o catchOf(handler, error)
    /\ pc' = "done"

(***************************************************************************)
(* getResearcherResponse and getModelPrediction.                           *)
(***************************************************************************)
\* getResearcherResponse, from its entry to the first model call: the query check, the API
\* key check, the read of match_data.csv (a failure is only logged) and
\* query.toLowerCase()
ResearcherBegin ==
    /\ pc = "begin"
    /\ handler = "getResearcherResponse"
    /\ LET missing == queryMissing(req.body.query)
       IN  \/ /\ missing = "yes"
              /\ Answer(QueryRequired)
              /\ UNCHANGED <<fileReads, llmVars>>
           \/ /\ missing = "TypeError"
              /\ Throw(TrimTypeError)
              /\ UNCHANGED <<fileReads, apiKey, calls, outcome, modelIndex, purpose,
                             lastError, texts>>
           \/ /\ missing = "no"
              /\ apiKey' = "missing"
              /\ Answer(KeyNotConfigured)
              /\ UNCHANGED <<fileReads, calls, outcome, modelIndex, purpose, lastError,
                             caught, texts>>
           \/ /\ missing = "no"
              /\ apiKey' = "configured"
              /\ fileReads' = fileReads + 1
              /\ purpose' = "researcher"
              /\ modelIndex' = 1
              /\ lastError' = NoError
              /\ pc' = "loop"
              /\ UNCHANGED <<responses, calls, outcome, caught, texts>>
    /\ UNCHANGED <<csvContent, data, result, req, handler>>

\* one turn of the loop of getResearcherResponse: the call of the model and what follows it up
\* to the next call or the answer
ResearcherCall ==
    /\ pc = "loop"
    /\ handler = "getResearcherResponse"
    /\ \E returned \in Outcomes :
          /\ calls' = Append(calls, [purpose |-> purpose, model |-> modelsToTry[modelIndex]])
          /\ outcome' = returned
          /\ IF returned.kind = "text"
             THEN \* res.json({ response: text }); return
                  /\ Answer([status |-> 200, body |-> [response |-> GeneratedText]])
                  /\ UNCHANGED <<modelIndex, lastError, caught>>
             ELSE LET error == IF returned.kind = "empty" THEN EmptyResponseError
                               ELSE returned.error
                  IN  /\ lastError' = error
                      /\ IF tryNextModel(error) /\ modelIndex < Len(modelsToTry)
                         THEN \* continue
                              /\ modelIndex' = modelIndex + 1
                              /\ UNCHANGED <<pc, responses, caught>>
                         ELSE \* throw error, or throw lastError after the last model
                              /\ Throw(error)
                              /\ UNCHANGED modelIndex
    /\ UNCHANGED <<csvContent, data, result, req, handler, fileReads, apiKey, purpose, texts>>

\* getModelPrediction, from its entry to the first model call: the query check, the API
\* key check, the read of match_data.csv (a failure is only logged) and
\* query.toLowerCase()
PredictionBegin ==
    /\ pc = "begin"
    /\ handler = "getModelPrediction"
    /\ LET missing == queryMissing(req.body.query)
       IN  \/ /\ missing = "yes"
              /\ Answer(QueryRequired)
              /\ UNCHANGED <<fileReads, llmVars>>
           \/ /\ missing = "TypeError"
              /\ Throw(TrimTypeError)
              /\ UNCHANGED <<fileReads, apiKey, calls, outcome, modelIndex, purpose,
                             lastError, texts>>
           \/ /\ missing = "no"
              /\ apiKey' = "missing"
              /\ Answer(KeyNotConfigured)
              /\ UNCHANGED <<fileReads, calls, outcome, modelIndex, purpose, lastError,
                             caught, texts>>
           \/ /\ missing = "no"
              /\ apiKey' = "configured"
              /\ fileReads' = fileReads + 1
              /\ purpose' = "prediction"
              /\ modelIndex' = 1
              /\ lastError' = NoError
              /\ pc' = "loop"
              /\ UNCHANGED <<responses, calls, outcome, caught, texts>>
    /\ UNCHANGED <<csvContent, data, result, req, handler>>

\* one turn of the loop of getModelPrediction: the call of the model and what follows it up
\* to the next call or the answer
PredictionCall ==
    /\ pc = "loop"
    /\ handler = "getModelPrediction"
    /\ \E returned \in Outcomes :
          /\ calls' = Append(calls, [purpose |-> purpose, model |-> modelsToTry[modelIndex]])
          /\ outcome' = returned
          /\ IF returned.kind = "text"
             THEN \* res.json({ response: text }); return
                  /\ Answer([status |-> 200, body |-> [response |-> GeneratedText]])
                  /\ UNCHANGED <<modelIndex, lastError, caught>>
             ELSE LET error == IF returned.kind = "empty" THEN EmptyResponseError
                               ELSE returned.error
                  IN  /\ lastError' = error
                      /\ IF tryNextModel(error) /\ modelIndex < Len(modelsToTry)
                         THEN \* continue
                              /\ modelIndex' = modelIndex + 1
                              /\ UNCHANGED <<pc, responses, caught>>
                         ELSE \* throw error, or throw lastError after the last model
                              /\ Throw(error)
                              /\ UNCHANGED modelIndex
    /\ UNCHANGED <<csvContent, data, result, req, handler, fileReads, apiKey, purpose, texts>>

(***************************************************************************)
(* getConclusion and tryGenerate.                                          *)
(***************************************************************************)
\* providedResearcher || null
orNull(text) == IF Truthy(text) THEN text ELSE Undefined

\* variant: the model-style analysis is generated before the researcher one
nextGeneration_ModelFirst(t) ==
    IF ~Truthy(t.model) THEN "conclusion.model"
    ELSE IF ~Truthy(t.researcher) THEN "conclusion.researcher"
    ELSE "conclusion.synthesis"

\* the generation getConclusion performs next: the missing researcher text,
\* then the missing model text, then the synthesis
nextGeneration(t) ==
    IF ~Truthy(t.researcher) THEN "conclusion.researcher"
    ELSE IF ~Truthy(t.model) THEN "conclusion.model"
    ELSE "conclusion.synthesis"

\* from the entry of getConclusion to the first call of tryGenerate
ConclusionBegin ==
    /\ pc = "begin"
    /\ handler = "getConclusion"
    /\ LET body     == req.body
           nothing  == ~Truthy(body.researcher) /\ ~Truthy(body.model)
           missing  == queryMissing(body.query)
           provided == [researcher |-> orNull(body.researcher), model |-> orNull(body.model)]
       IN  \/ /\ nothing /\ missing = "yes"
              /\ Answer([status |-> 400,
                         body |-> "Either query or researcher/model texts are required"])
              /\ UNCHANGED <<fileReads, llmVars>>
           \/ /\ nothing /\ missing = "TypeError"
              /\ Throw(TrimTypeError)
              /\ UNCHANGED <<fileReads, apiKey, calls, outcome, modelIndex, purpose,
                             lastError, texts>>
           \/ /\ ~nothing \/ missing = "no"
              /\ apiKey' = "missing"
              /\ Answer(KeyNotConfigured)
              /\ UNCHANGED <<fileReads, calls, outcome, modelIndex, purpose, lastError,
                             caught, texts>>
           \/ /\ ~nothing \/ missing = "no"
              /\ apiKey' = "configured"
              /\ fileReads' = fileReads + 1
              /\ IF body.query = NotAString
                 THEN \* (query || '').toLowerCase()
                      /\ Throw(LowerTypeError)
                      /\ UNCHANGED <<calls, outcome, modelIndex, purpose, lastError, texts>>
                 ELSE IF (~Truthy(provided.researcher) \/ ~Truthy(provided.model))
                         /\ missing = "yes"
                 THEN /\ Answer([status |-> 400,
                          body |-> "Query is required when researcher/model texts are not provided"])
                      /\ UNCHANGED <<calls, outcome, modelIndex, purpose, lastError, caught,
                                     texts>>
                 ELSE /\ texts' = provided
                      /\ purpose' = nextGeneration(provided)
                      /\ modelIndex' = 1
                      /\ lastError' = NoError
                      /\ pc' = "tryGenerate"
                      /\ UNCHANGED <<responses, calls, outcome, caught>>
    /\ UNCHANGED <<csvContent, data, result, req, handler>>

\* tryGenerate has returned a text to getConclusion
Generated(text) ==
    IF purpose = "conclusion.synthesis"
    THEN /\ Answer([status |-> 200,
                    body |-> [response   |-> text,
                              researcher |-> texts.researcher,
                              model      |-> texts.model]])
         /\ UNCHANGED <<modelIndex, purpose, lastError, texts>>
    ELSE LET assigned == IF purpose = "conclusion.researcher"
                         THEN [texts EXCEPT !.researcher = text]
                         ELSE [texts EXCEPT !.model = text]
         IN  /\ texts' = assigned
             /\ purpose' = nextGeneration(assigned)
             /\ modelIndex' = 1
             /\ lastError' = NoError
             /\ UNCHANGED <<pc, responses>>

\* one turn of the loop of tryGenerate, up to the next call, the return to
\* getConclusion or the answer
TryGenerateCall ==
    /\ pc = "tryGenerate"
    /\ handler = "getConclusion"
    /\ \E returned \in Outcomes :
          /\ calls' = Append(calls, [purpose |-> purpose, model |-> modelsToTry[modelIndex]])
          /\ outcome' = returned
          /\ IF returned.kind = "text"
             THEN \* if (text) return { model: modelName, text }
                  /\ Generated(GeneratedText)
                  /\ UNCHANGED caught
             ELSE LET error == IF returned.kind = "empty" THEN lastError ELSE returned.error
                  IN  /\ lastError' = error
                      /\ UNCHANGED <<purpose, texts>>
                      /\ IF returned.kind = "error" /\ ~tryNextModel(error)
                         THEN \* throw err
                              /\ Throw(error)
                              /\ UNCHANGED modelIndex
                         ELSE IF modelIndex < Len(modelsToTry)
                         THEN \* the next turn of the loop
                              /\ modelIndex' = modelIndex + 1
                              /\ UNCHANGED <<pc, responses, caught>>
                         ELSE \* throw lastError || new Error('All model attempts failed')
                              /\ Throw(IF error = NoError THEN AllFailedError ELSE error)
                              /\ UNCHANGED modelIndex
    /\ UNCHANGED <<csvContent, data, result, req, handler, fileReads, apiKey>>

NextServer ==
    \/ Receive
    \/ EnsureAuthenticated
    \/ ReadFile
    \/ ReadFileFails
    \/ ParseStep
    \/ ProcessStep
    \/ Respond
    \/ ResearcherBegin
    \/ ResearcherCall
    \/ PredictionBegin
    \/ PredictionCall
    \/ ConclusionBegin
    \/ TryGenerateCall

SpecServer == InitServer /\ [][NextServer]_vars

(***************************************************************************)
(* Vocabulary of the properties.                                           *)
(***************************************************************************)
\* parseCSV has returned
Parsed == pc \in {"parsed", "processed"} \/ (pc = "done" /\ result # NoResult)

\* processComprehensiveData has returned
Processed == pc \in {"processed", "done"} /\ result # NoResult

\* a finite number between 0 and 100
InPercentRange(x) == IsFinite(x) /\ 0 <= x.n /\ x.n <= 100 * x.d

\* x <= y for finite numbers
NumLeq(x, y) == x.n * y.d <= y.n * x.d

RECURSIVE SumOver(_, _)
\* the sum of f[k] over the keys k in S
SumOver(f, S) ==
    IF S = {} THEN 0
    ELSE LET k == CHOOSE x \in S : TRUE
         IN  f[k] + SumOver(f, S \ {k})

\* the positions of the records of a game
RecordsOfGame(gameId) == {i \in 1..Len(data) : Get(data[i], GameID) = gameId}

\* the first record of a game
FirstRecord(gameId) == data[SetMin(RecordsOfGame(gameId))]

GameIdsInData == {Get(data[i], GameID) : i \in 1..Len(data)}

\* the first record of the game lacks none of the required fields
HasRequiredFields(gameId) ==
    /\ Truthy(Get(FirstRecord(gameId), Opponent))
    /\ Truthy(Get(FirstRecord(gameId), Date))
    /\ Truthy(Get(FirstRecord(gameId), Season))

(***************************************************************************)
(* C1                                                                      *)
(***************************************************************************)
\* C1: in every result every rate field (shotMapData[loc].successRate,
\* teamComparison[opp].conversionRate, keyStats.overallConversionRate) lies in
\* the closed range [0,100], also when a record has Shot Outcome 'Goal' without
\* Shot Attempt 'Yes'.
C1_RatesArePercentages ==
    Processed =>
        /\ \A loc \in DOMAIN result.shotMapData :
              InPercentRange(result.shotMapData[loc].successRate)
        /\ \A opp \in DOMAIN result.teamComparison :
              InPercentRange(result.teamComparison[opp].conversionRate)
        /\ InPercentRange(result.keyStats.overallConversionRate)

(***************************************************************************)
(* C2                                                                      *)
(***************************************************************************)
\* every record has a non-empty Opponent and the records of one game agree on it
OneOpponentPerGame ==
    /\ \A i \in 1..Len(data) : Truthy(Get(data[i], Opponent))
    /\ \A i, j \in 1..Len(data) :
          Get(data[i], GameID) = Get(data[j], GameID)
              => Get(data[i], Opponent) = Get(data[j], Opponent)

TeamGoalsTotal ==
    SumOver([opp \in DOMAIN result.teamComparison |->
                result.teamComparison[opp].totalGoals],
            DOMAIN result.teamComparison)

\* C2 as stated: whenever every record has a non-empty Opponent and the records
\* of one Game ID agree on it, the per-opponent totalGoals add up to
\* keyStats.totalGoals.
C2_GoalsAddUp_AsStated ==
    (Processed /\ OneOpponentPerGame) => TeamGoalsTotal = result.keyStats.totalGoals

\* C2 amended: the per-opponent totalGoals add up to keyStats.totalGoals when,
\* besides, the first record of every Game ID has a non-empty Date and Season
\* (so that no game is dropped).
C2_GoalsAddUp ==
    (Processed /\ OneOpponentPerGame /\ \A g \in GameIdsInData : HasRequiredFields(g))
        => TeamGoalsTotal = result.keyStats.totalGoals

\* two opponents with goals each, all games materialized
C2_Witness ==
    /\ Processed /\ OneOpponentPerGame
    /\ \A g \in GameIdsInData : HasRequiredFields(g)
    /\ \E a, b \in DOMAIN result.teamComparison :
          /\ a # b
          /\ result.teamComparison[a].totalGoals > 0
          /\ result.teamComparison[b].totalGoals > 0
          /\ result.keyStats.totalGoals >= 3

(***************************************************************************)
(* C3                                                                      *)
(***************************************************************************)
\* the non-empty locations of the records that satisfy test
LocationsWhere(test(_)) ==
    {Get(data[i], LocationOnField) : i \in {k \in 1..Len(data) : test(data[k])}}
        \ {<<>>, Undefined}

\* C3 as stated: the keys of shotMapData are exactly the non-empty locations
\* that occur on a record with Shot Attempt 'Yes'.
C3_KeysAreShotLocations_AsStated ==
    Processed =>
        DOMAIN result.shotMapData = LocationsWhere(LAMBDA row : Get(row, ShotAttempt) = Yes)

\* C3 amended: the keys of shotMapData are exactly the non-empty locations that
\* occur on any record; a location that occurs only on records without a shot
\* attempt has an entry whose totalShots, goals, avgXG and successRate are 0.
C3_KeysAreAllLocations ==
    Processed =>
        /\ DOMAIN result.shotMapData = LocationsWhere(LAMBDA row : TRUE)
        /\ \A loc \in LocationsWhere(LAMBDA row : TRUE)
                        \ LocationsWhere(LAMBDA row : Get(row, ShotAttempt) = Yes) :
              result.shotMapData[loc] =
                  [totalShots |-> 0, goals |-> 0, avgXG |-> Zero, successRate |-> Zero]

\* one location with attempted shots next to one without any
C3_Witness ==
    /\ Processed
    /\ \E a, b \in DOMAIN result.shotMapData :
          /\ result.shotMapData[a].totalShots > 0
          /\ result.shotMapData[b].totalShots = 0
          /\ b \notin LocationsWhere(LAMBDA row : Get(row, ShotAttempt) = Yes)

(***************************************************************************)
(* C4                                                                      *)
(***************************************************************************)
\* the data lines of the text that are not blank
NonBlankLines(lines) == {i \in 2..Len(lines) : Trim(lines[i]) # <<>>}

\* the non-blank data lines with as many values as the header has columns
WellFormedLines(lines) ==
    LET width == Len(Split(lines[1], ","))
    IN  {i \in NonBlankLines(lines) : Len(Split(lines[i], ",")) = width}

\* the text without its blank and ragged lines
CorrectedText(lines) ==
    LET kept == WellFormedLines(lines)
    IN  Join(<<lines[1]>> \o [k \in 1..Cardinality(kept) |-> lines[Nth(kept, k)]], "\n")

\* rows holds exactly the lines kept, in order, each with its trimmed values
RecordsAre(rows, lines, header, kept) ==
    /\ Len(rows) = Cardinality(kept)
    /\ \A k \in 1..Len(rows) :
          LET values == Split(lines[Nth(kept, k)], ",")
          IN  /\ DOMAIN rows[k] = {Trim(header[j]) : j \in 1..Len(header)}
              /\ \A j \in 1..Len(header) : rows[k][Trim(header[j])] = Trim(values[j])

\* C4: parseCSV skips every non-blank data line whose value count differs from
\* the header's and keeps parsing: the records are exactly the well-formed
\* lines, in file order, each holding the trimmed values of its line, and the
\* result is the one the text without the skipped lines gives.
C4_RaggedRowsSkipped ==
    LET lines == Split(csvContent, "\n")
    IN  /\ Parsed =>
              RecordsAre(data, lines, Split(lines[1], ","), WellFormedLines(lines))
        /\ Processed =>
              result = processComprehensiveData(parseCSV(CorrectedText(lines)))

\* a ragged line with a goal was skipped and a later line was kept
C4_Witness ==
    LET lines == Split(csvContent, "\n")
    IN  /\ Processed
        /\ \E i \in NonBlankLines(lines) \ WellFormedLines(lines) :
              /\ \E j \in WellFormedLines(lines) : j > i
              /\ \E v \in Range(Split(lines[i], ",")) : v = Goal
        /\ Len(data) >= 1

(***************************************************************************)
(* C5                                                                      *)
(***************************************************************************)
\* C5: every entry of games has at least one play and a non-empty opponent,
\* date and season; a Game ID whose first record lacks one of them contributes
\* nothing to games, to goalsTimeline or to any gamesPlayed.
C5_OnlyCompleteGames ==
    Processed =>
        /\ \A g \in 1..Len(result.games) :
              /\ Len(result.games[g].plays) >= 1
              /\ Truthy(result.games[g].opponent)
              /\ Truthy(result.games[g].date)
              /\ Truthy(result.games[g].season)
              /\ result.games[g].gameId \in GameIdsInData
        /\ \A id \in GameIdsInData :
              ~HasRequiredFields(id) =>
                  /\ \A g \in 1..Len(result.games) : result.games[g].gameId # id
                  /\ \A k \in 1..Len(result.goalsTimeline) :
                        result.goalsTimeline[k].gameId # id
        /\ \A opp \in DOMAIN result.teamComparison :
              result.teamComparison[opp].gamesPlayed =
                  Cardinality({id \in GameIdsInData :
                                  /\ HasRequiredFields(id)
                                  /\ Get(FirstRecord(id), Opponent) = opp})

\* a game with a goal was dropped for an empty field while another game stayed
C5_Witness ==
    /\ Processed
    /\ Len(result.games) >= 1
    /\ \E id \in GameIdsInData :
          /\ ~HasRequiredFields(id)
          /\ \E i \in RecordsOfGame(id) :
                /\ Get(data[i], ShotOutcome) = Goal
                /\ Truthy(Get(data[i], Opponent))

(***************************************************************************)
(* C6                                                                      *)
(***************************************************************************)
\* the number of records that satisfy test
CountWhere(test(_)) == Cardinality({i \in 1..Len(data) : test(data[i])})

\* C6: every metric is a finite number, and it is exactly 0 when its
\* denominator is zero: the avgXG and successRate of a location without
\* attempted shots, the avgXG of a play type, the conversionRate and
\* avgXGPerShot of an opponent without attempted shots (also one without any
\* materialized game), and the overall rate and average without any shot.
C6_ZeroDenominatorGivesZero ==
    Processed =>
        /\ \A loc \in DOMAIN result.shotMapData :
              LET e == result.shotMapData[loc]
              IN  /\ IsFinite(e.avgXG) /\ IsFinite(e.successRate)
                  /\ CountWhere(LAMBDA row : Get(row, LocationOnField) = loc
                                             /\ Get(row, ShotAttempt) = Yes) = 0
                        => e.avgXG = Zero /\ e.successRate = Zero
        /\ \A t \in DOMAIN result.playTypeData :
              LET e == result.playTypeData[t]
              IN  /\ IsFinite(e.avgXG)
                  /\ e.count = 0 => e.avgXG = Zero
        /\ \A opp \in DOMAIN result.teamComparison :
              LET e == result.teamComparison[opp]
              IN  /\ IsFinite(e.conversionRate) /\ IsFinite(e.avgXGPerShot)
                  /\ e.totalShots = 0 => e.conversionRate = Zero /\ e.avgXGPerShot = Zero
                  /\ e.gamesPlayed = 0 => e.conversionRate = Zero /\ e.avgXGPerShot = Zero
        /\ LET e == result.keyStats
           IN  /\ IsFinite(e.overallConversionRate) /\ IsFinite(e.avgXGPerShot)
               /\ CountWhere(LAMBDA row : Get(row, ShotAttempt) = Yes) = 0
                     => e.overallConversionRate = Zero /\ e.avgXGPerShot = Zero

\* a location without shots, an opponent without a game and no shot at all,
\* on records that carry a goal
C6_Witness ==
    /\ Processed
    /\ \E loc \in DOMAIN result.shotMapData : result.shotMapData[loc].totalShots = 0
    /\ \E opp \in DOMAIN result.teamComparison : result.teamComparison[opp].gamesPlayed = 0
    /\ result.keyStats.totalShots = 0
    /\ result.keyStats.totalGoals > 0

(***************************************************************************)
(* C7                                                                      *)
(***************************************************************************)
\* the records that are shot attempts, in order
ShotRecordsOnly == SelectSeq(data, LAMBDA row : Get(row, ShotAttempt) = Yes)

\* C7: for every location, totalShots counts the records of that location with
\* Shot Attempt 'Yes', goals counts those of them with Shot Outcome 'Goal',
\* goals <= totalShots, successRate is goals/totalShots*100 (0 without shots),
\* and the counts are those of the input without its non-shot records.
C7_ShotMapCountsShotsOnly ==
    Processed =>
        LET shotsOnly == shotMapDataOf(ShotRecordsOnly)
        IN  \A loc \in DOMAIN result.shotMapData :
              LET e     == result.shotMapData[loc]
                  shots == CountWhere(LAMBDA row : Get(row, LocationOnField) = loc
                                                   /\ Get(row, ShotAttempt) = Yes)
                  goals == CountWhere(LAMBDA row : Get(row, LocationOnField) = loc
                                                   /\ Get(row, ShotAttempt) = Yes
                                                   /\ Get(row, ShotOutcome) = Goal)
              IN  /\ e.totalShots = shots
                  /\ e.goals = goals
                  /\ e.goals <= e.totalShots
                  /\ IF e.totalShots > 0
                     THEN /\ IsFinite(e.successRate)
                          /\ e.successRate.n * e.totalShots = 100 * e.goals * e.successRate.d
                     ELSE e.successRate = Zero
                  /\ IF loc \in DOMAIN shotsOnly
                     THEN /\ e.totalShots = shotsOnly[loc].totalShots
                          /\ e.goals = shotsOnly[loc].goals
                     ELSE e.totalShots = 0 /\ e.goals = 0

\* a location with a missed shot, a scored shot and a goal that was no shot
C7_Witness ==
    /\ Processed
    /\ \E loc \in DOMAIN result.shotMapData :
          /\ result.shotMapData[loc].totalShots = 2
          /\ result.shotMapData[loc].goals = 1
          /\ CountWhere(LAMBDA row : Get(row, LocationOnField) = loc
                                     /\ Get(row, ShotAttempt) # Yes
                                     /\ Get(row, ShotOutcome) = Goal) > 0

(***************************************************************************)
(* C8                                                                      *)
(***************************************************************************)
\* C8: for every play of every game, minute and winImpact are integers, xG is
\* a number and shotDistance is an integer or null, whatever the raw text.
C8_NumericFieldsDefaulted ==
    Processed =>
        \A g \in 1..Len(result.games) :
            \A p \in 1..Len(result.games[g].plays) :
                LET play == result.games[g].plays[p]
                IN  /\ IsInteger(play.minute)
                    /\ IsInteger(play.winImpact)
                    /\ IsFinite(play.xG)
                    /\ play.shotDistance = Null \/ IsInteger(play.shotDistance)

(***************************************************************************)
(* C9                                                                      *)
(***************************************************************************)
\* the goals of the materialized games: <<game position, play position>>
GoalPlays ==
    {gp \in UNION {{<<g, p>> : p \in 1..Len(result.games[g].plays)} :
                      g \in 1..Len(result.games)} :
        result.games[gp[1]].plays[gp[2]].shotOutcome = Goal}

\* game order first, play order second
Before(a, b) == a[1] < b[1] \/ (a[1] = b[1] /\ a[2] < b[2])

\* the k-th goal in that order
NthGoal(k) == CHOOSE a \in GoalPlays : Cardinality({b \in GoalPlays : Before(b, a)}) = k - 1

\* C9: goalsTimeline holds one entry per play of a materialized game whose
\* shotOutcome is 'Goal' and nothing else, in game order and then play order,
\* each entry carrying the id and opponent of its game and the fields of its
\* play.
C9_TimelineIsGoalsInOrder ==
    Processed =>
        /\ Len(result.goalsTimeline) = Cardinality(GoalPlays)
        /\ \A k \in 1..Len(result.goalsTimeline) :
              LET game  == result.games[NthGoal(k)[1]]
                  play  == game.plays[NthGoal(k)[2]]
                  entry == result.goalsTimeline[k]
              IN  /\ entry.gameId = game.gameId
                  /\ entry.opponent = game.opponent
                  /\ entry.minute = play.minute
                  /\ entry.playType = play.playType
                  /\ entry.playContext = play.playContext
                  /\ entry.location = play.location
                  /\ entry.xG = play.xG
                  /\ entry.winImpact = play.winImpact

\* goals of two games, the later game first in the input, and a play of a
\* materialized game that is no goal
C9_Witness ==
    /\ Processed
    /\ Len(result.goalsTimeline) >= 2
    /\ result.goalsTimeline[1].gameId # result.goalsTimeline[2].gameId
    /\ Get(data[1], GameID) = result.goalsTimeline[2].gameId
    /\ \E g \in 1..Len(result.games) : \E p \in 1..Len(result.games[g].plays) :
          result.games[g].plays[p].shotOutcome # Goal

(***************************************************************************)
(* C10                                                                     *)
(***************************************************************************)
\* C10: games is in ascending numeric order of the game identifier, and the
\* plays of each game are the game's records in input order.
C10_GamesInNumericOrder ==
    Processed =>
        /\ \A i, j \in 1..Len(result.games) :
              i < j => /\ toNumber(result.games[i].gameId) # NaN
                       /\ toNumber(result.games[j].gameId) # NaN
                       /\ result.games[i].gameId # result.games[j].gameId
                       /\ NumLeq(toNumber(result.games[i].gameId),
                                 toNumber(result.games[j].gameId))
        /\ \A g \in 1..Len(result.games) :
              LET records == RecordsOfGame(result.games[g].gameId)
              IN  /\ Len(result.games[g].plays) = Cardinality(records)
                  /\ \A p \in 1..Len(result.games[g].plays) :
                        result.games[g].plays[p] = toPlay(data[Nth(records, p)])

\* game '10' behind a game with a one-digit id although its record came first,
\* the other game holding two different plays
C10_Witness ==
    /\ Processed
    /\ Len(result.games) >= 2
    /\ result.games[Len(result.games)].gameId = <<"1", "0">>
    /\ Get(data[1], GameID) = <<"1", "0">>
    /\ Len(result.games[1].plays) = 2
    /\ result.games[1].plays[1] # result.games[1].plays[2]

(***************************************************************************)
(* C11                                                                     *)
(***************************************************************************)
ResultKeys ==
    {"goalsTimeline", "shotMapData", "playTypeData", "teamComparison", "keyStats",
     "games", "opponents"}

\* C11: once the source text was read, whatever it holds, the handler answers
\* with the result object and its seven views and with nothing else; when the
\* source cannot be read it answers 500 and no result was computed.
C11_ErrorOnlyWhenUnreadable ==
    pc = "done" =>
        /\ Len(responses) = 1
        /\ IF csvContent # <<>>
           THEN /\ responses[1].status = 200
                /\ responses[1].body = processComprehensiveData(parseCSV(csvContent))
                /\ DOMAIN responses[1].body = ResultKeys
           ELSE /\ responses[1].status = 500
                /\ responses[1].body = "Failed to process comprehensive data"
                /\ result = NoResult /\ data = <<>>

\* a text whose only data lines are ragged or dropped was answered with 200
C11_Witness ==
    /\ pc = "done"
    /\ Len(Split(csvContent, "\n")) >= 3
    /\ responses[1].status = 200
    /\ Len(responses[1].body.games) = 0
    /\ Len(responses[1].body.goalsTimeline) = 0

(***************************************************************************)
(* C12                                                                     *)
(***************************************************************************)
EmptyResult ==
    [goalsTimeline  |-> <<>>,
     shotMapData    |-> <<>>,
     playTypeData   |-> <<>>,
     teamComparison |-> <<>>,
     keyStats       |-> [totalGames |-> 0, totalGoals |-> 0, totalShots |-> 0,
                         totalXG |-> Zero, overallConversionRate |-> Zero,
                         avgXGPerShot |-> Zero],
     games          |-> <<>>,
     opponents      |-> <<>>]

\* the text is a header followed by no line or by blank lines only
HeaderOnly == NonBlankLines(Split(csvContent, "\n")) = {}

\* C12: for a header-only input parseCSV returns no records and the result has
\* every list and mapping empty and every keyStats field 0.
C12_HeaderOnlyGivesEmptyResult ==
    /\ (Parsed /\ HeaderOnly) => data = <<>>
    /\ (Processed /\ HeaderOnly) =>
          /\ result = EmptyResult
          /\ DOMAIN result.shotMapData = {}
          /\ DOMAIN result.playTypeData = {}
          /\ DOMAIN result.teamComparison = {}

\* a header followed by blank lines was processed
C12_Witness ==
    /\ Processed
    /\ HeaderOnly
    /\ Len(Split(csvContent, "\n")) >= 3

(***************************************************************************)
(* C14                                                                     *)
(***************************************************************************)
\* the position of the first record whose Opponent is opp
FirstWithOpponent(opp) == SetMin({i \in 1..Len(data) : Get(data[i], Opponent) = opp})

\* the positions in result.games of the games played against opp
GamesAgainst(opp) ==
    {g \in 1..Len(result.games) :
        Get(FirstRecord(result.games[g].gameId), Opponent) = opp}

\* the plays of the games at the positions gs, game after game
RECURSIVE PlaysOfGames(_)
PlaysOfGames(gs) ==
    IF gs = {} THEN <<>>
    ELSE result.games[SetMin(gs)].plays \o PlaysOfGames(gs \ {SetMin(gs)})

\* C14: opponents holds each distinct non-empty Opponent of the records once,
\* in order of first occurrence; teamComparison has one entry per element of
\* opponents, with gamesPlayed the number of materialized games whose first
\* record names that opponent and totals taken over all plays of those games.
C14_OpponentsAndTeamEntries ==
    Processed =>
        /\ Range(result.opponents)
              = {Get(data[i], Opponent) : i \in 1..Len(data)} \ {<<>>, Undefined}
        /\ \A i, j \in 1..Len(result.opponents) :
              i < j => /\ result.opponents[i] # result.opponents[j]
                       /\ FirstWithOpponent(result.opponents[i])
                             < FirstWithOpponent(result.opponents[j])
        /\ DOMAIN result.teamComparison = Range(result.opponents)
        /\ \A opp \in DOMAIN result.teamComparison :
              LET entry == result.teamComparison[opp]
                  plays == PlaysOfGames(GamesAgainst(opp))
              IN  /\ entry.gamesPlayed = Cardinality(GamesAgainst(opp))
                  /\ entry.totalGoals
                        = Len(SelectSeq(plays, LAMBDA play : play.shotOutcome = Goal))
                  /\ entry.totalShots
                        = Len(SelectSeq(plays, LAMBDA play : play.shotAttempt = Yes))
                  /\ entry.totalXG = SumSeq([k \in 1..Len(plays) |-> plays[k].xG])

\* two opponents of which the second in the list played the first game, a
\* record without an Opponent, and an opponent none of whose games materialized
C14_Witness ==
    /\ Processed
    /\ Len(result.opponents) = 2
    /\ \E i \in 1..Len(data) : ~Truthy(Get(data[i], Opponent))
    /\ \E opp \in DOMAIN result.teamComparison :
          result.teamComparison[opp].gamesPlayed = 0
    /\ Len(result.games) >= 1
    /\ result.games[1].opponent = result.opponents[2]

(***************************************************************************)
(* C20                                                                     *)
(***************************************************************************)
TeamGamesPlayed ==
    SumOver([opp \in DOMAIN result.teamComparison |->
                result.teamComparison[opp].gamesPlayed],
            DOMAIN result.teamComparison)

\* a game identifier of the records whose game was not materialized
SomeGameDropped == \E gameId \in GameIdsInData : ~HasRequiredFields(gameId)

\* C20: the gamesPlayed of all opponents add up to the number of games,
\* keyStats.totalGames is the number of distinct Game ID values of the records
\* and is at least the number of games, with equality exactly when no game
\* identifier was dropped.
C20_GameCountsAgree ==
    Processed =>
        /\ TeamGamesPlayed = Len(result.games)
        /\ result.keyStats.totalGames = Cardinality(GameIdsInData)
        /\ result.keyStats.totalGames >= Len(result.games)
        /\ (result.keyStats.totalGames = Len(result.games)) <=> ~SomeGameDropped

\* one game dropped, two games materialized against different opponents
C20_Witness ==
    /\ Processed
    /\ SomeGameDropped
    /\ Len(result.games) = 2
    /\ Cardinality(DOMAIN result.teamComparison) = 2
    /\ result.keyStats.totalGames = 3

(***************************************************************************)
(* Vocabulary of the properties of the model-calling handlers.             *)
(***************************************************************************)
\* the API answered that the model does not exist or is not offered
IsAvailabilityError(error) == error.status = 404

\* a model call has just failed with an error of another kind
OtherErrorReturned == outcome.kind = "error" /\ ~IsAvailabilityError(outcome.error)

\* a fallback loop is about to call a model
InLoop == pc \in {"loop", "tryGenerate"}

\* the position of a model in modelsToTry
IndexOfModel(name) == CHOOSE i \in 1..Len(modelsToTry) : modelsToTry[i] = name

\* the positions in the log of the calls made for one purpose
CallsFor(p) == {i \in 1..Len(calls) : calls[i].purpose = p}

Purposes ==
    {"researcher", "prediction", "conclusion.researcher", "conclusion.model",
     "conclusion.synthesis"}

\* C15: a model call that fails with an error other than a model-availability
\* error ends the loop at once: the error is the one the handler's catch block
\* receives and no later model is attempted, also when the message of the
\* error contains the word 'model'.
C15_OtherErrorsRethrown ==
    OtherErrorReturned => (pc = "done" /\ caught = outcome.error)

\* C16: the loops call the models in the order of modelsToTry; the model after
\* model k is called only after model k failed with a model-availability
\* error; a text ends the loop; a loop makes at most four calls and fails with
\* the last error when all four fail.
C16_FallbackInOrder ==
    /\ \A p \in Purposes :
          /\ Cardinality(CallsFor(p)) <= Len(modelsToTry)
          /\ \A i \in CallsFor(p) :
                IndexOfModel(calls[i].model) = Cardinality({j \in CallsFor(p) : j <= i})
    /\ (InLoop /\ modelIndex > 1) =>
          (outcome.kind = "error" /\ IsAvailabilityError(outcome.error))
    /\ (outcome.kind = "text" /\ InLoop) =>
          (modelIndex = 1 /\ calls[Len(calls)].purpose # purpose)
    /\ (Len(calls) > 0 /\ Cardinality(CallsFor(calls[Len(calls)].purpose)) = Len(modelsToTry)
           /\ outcome.kind = "error") =>
          (pc = "done" /\ caught = outcome.error)

(***************************************************************************)
(* C17                                                                     *)
(***************************************************************************)
\* the request is at a point from which a step of the server or of its handler
\* can be taken
CanStep ==
    \/ pc \in {"auth", "start", "read", "parsed", "processed"}
    \/ pc = "begin"
          /\ handler \in {"getResearcherResponse", "getModelPrediction", "getConclusion"}
    \/ pc = "loop"
          /\ handler \in {"getResearcherResponse", "getModelPrediction"}
          /\ modelIndex \in 1..Len(modelsToTry)
    \/ pc = "tryGenerate"
          /\ handler = "getConclusion"
          /\ modelIndex \in 1..Len(modelsToTry)

\* C17: every handler sends exactly one response per request: never a second
\* one, none before it is done, one when it is done, and no path stops before
\* the handler is done.
C17_ExactlyOneResponse ==
    /\ Len(responses) <= 1
    /\ (pc = "done") <=> (Len(responses) = 1)
    /\ pc \notin {"idle", "done"} => CanStep

\* getConclusion answered after an error thrown by the synthesis, when both
\* texts had been generated
C17_Witness ==
    /\ pc = "done"
    /\ handler = "getConclusion"
    /\ caught # NoError
    /\ Len(responses) = 1
    /\ responses[1].status = 500
    /\ CallsFor("conclusion.synthesis") # {}
    /\ CallsFor("conclusion.researcher") # {}

(***************************************************************************)
(* C18                                                                     *)
(***************************************************************************)
\* the query is absent, empty or white space
BlankQuery(query) == query \in {Undefined, <<>>, <<" ">>}

\* the order in which getConclusion may generate
RankOf(p) ==
    IF p = "conclusion.researcher" THEN 1
    ELSE IF p = "conclusion.model" THEN 2
    ELSE 3

\* C18: getConclusion answers 400 without any model call when no text and no
\* query was sent, and 500 without any model call when the API key is missing;
\* with both texts supplied it only runs the synthesis and echoes the texts;
\* with a text missing it generates the researcher text before the model text
\* and both before the synthesis, and answers 400 without any model call when
\* the query is blank.
C18_ConclusionChecksBeforeCalls ==
    (handler = "getConclusion" /\ pc # "begin") =>
        LET body    == req.body
            hasR    == Truthy(body.researcher)
            hasM    == Truthy(body.model)
        IN  /\ (~hasR /\ ~hasM /\ BlankQuery(body.query)) =>
                  /\ pc = "done" /\ calls = <<>> /\ apiKey = "unread"
                  /\ responses[1].status = 400
            /\ apiKey = "missing" =>
                  /\ pc = "done" /\ calls = <<>>
                  /\ responses = <<KeyNotConfigured>>
            /\ (hasR /\ hasM) =>
                  /\ \A i \in 1..Len(calls) : calls[i].purpose = "conclusion.synthesis"
                  /\ (pc = "done" /\ responses[1].status = 200) =>
                        /\ responses[1].body.researcher = body.researcher
                        /\ responses[1].body.model = body.model
            /\ hasR => CallsFor("conclusion.researcher") = {}
            /\ hasM => CallsFor("conclusion.model") = {}
            /\ \A i, j \in 1..Len(calls) :
                  i < j => RankOf(calls[i].purpose) <= RankOf(calls[j].purpose)
            /\ CallsFor("conclusion.synthesis") # {} =>
                  /\ ~hasR => CallsFor("conclusion.researcher") # {}
                  /\ ~hasM => CallsFor("conclusion.model") # {}
            /\ (pc = "done" /\ responses[1].status = 200) =>
                  /\ ~hasR => responses[1].body.researcher = GeneratedText
                  /\ ~hasM => responses[1].body.model = GeneratedText
            /\ ((~hasR \/ ~hasM) /\ BlankQuery(body.query) /\ apiKey = "configured") =>
                  /\ pc = "done" /\ calls = <<>>
                  /\ responses[1].status = 400

\* a conclusion was answered for a request that supplied neither text: the
\* researcher text was generated, then the model text, then the synthesis
C18_Witness ==
    /\ handler = "getConclusion"
    /\ pc = "done"
    /\ ~Truthy(req.body.researcher) /\ ~Truthy(req.body.model)
    /\ responses[1].status = 200
    /\ Len(calls) >= 4
    /\ calls[1].purpose = "conclusion.researcher"
    /\ calls[Len(calls)].purpose = "conclusion.synthesis"
    /\ CallsFor("conclusion.model") # {}

(***************************************************************************)
(* C19                                                                     *)
(***************************************************************************)
\* C19: a handler runs only for an authenticated request, and it is the
\* handler of the route; an unauthenticated request is answered 401
\* 'Unauthorized' and nothing of a handler happens: no file read, no read of
\* the API key, no model call.
C19_HandlersBehindAuthentication ==
    /\ handler # "none" =>
          (req # NoRequest /\ req.authenticated /\ handler = HandlerOf[req.route])
    /\ (req # NoRequest /\ ~req.authenticated /\ pc # "auth") =>
          /\ pc = "done"
          /\ responses = <<[status |-> 401, body |-> "Unauthorized"]>>
          /\ handler = "none"
          /\ fileReads = 0 /\ csvContent = <<>> /\ result = NoResult
          /\ apiKey = "unread" /\ calls = <<>>

\* an unauthenticated request for /api/conclusions carrying a query was answered
C19_Witness ==
    /\ pc = "done"
    /\ req # NoRequest
    /\ ~req.authenticated
    /\ req.route = "conclusions"
    /\ req.body.query = <<"q">>
    /\ responses[1].status = 401

====
